---- MODULE Spec2Model ----
(***************************************************************************)
(* Model of "assets/Formulas and code/boot_universe.cpp" (Quantum Fruits). *)
(*                                                                         *)
(* The file defines two classes of stubs, Observer and Sandbox, and the    *)
(* driver boot_universe.  Two kinds of client are modelled:                *)
(*   Spec     two runs of boot_universe, each with its own value of the    *)
(*            header constant CONST_8PI_G_C4, produced by the same build;  *)
(*   FairSpec Spec with the fairness of a thread that keeps executing;     *)
(*   ApiSpec  a client that calls the public operations of one Sandbox     *)
(*            and of Observer in any order with any argument.              *)
(* A double d is modelled by the integer d (1.0 is 1, 0.0 is 0).           *)
(***************************************************************************)
EXTENDS Integers, Sequences, FiniteSets, TLC

VARIABLES
    forward_progress,  \* build: the implementation uses [intro.progress]
    pc,                \* per run: the next call of the client
    volume_geometry,   \* per run: the argument given to Sandbox::initialize
    universe,          \* per run: the Sandbox instance
    first_action,      \* per run: the local first_action of boot_universe
    last,              \* per run: the last call made, its argument and result
    calls              \* per run: the first calls made, in order

vars == <<forward_progress, pc, volume_geometry, universe, first_action, last, calls>>

(***************************************************************************)
(* Bounds of the model.                                                    *)
(***************************************************************************)
MaxExponent == 1    \* doubles tried: 0 and +-10^e for e in 0..MaxExponent
MaxCalls == 8       \* calls of a run of boot_universe that are recorded
MaxTestCalls == 2   \* calls of the API client that are recorded

Runs == {"a", "b"}

Doubles == {0} \cup {s * (10 ^ e) : s \in {-1, 1}, e \in 0..MaxExponent}

(***************************************************************************)
(* Constants of the program.                                               *)
(***************************************************************************)
SIGMA_P == 1
PLANCK_LIMIT == 1

(***************************************************************************)
(* Values.  An object or a value that is not there yet is Unset; an        *)
(* argument list or a result is a tuple, empty for "none" and for void.    *)
(***************************************************************************)
Unset == <<"unset">>
NoValue == << >>

\* Sandbox has no data members: every instance is the same value.
Sandbox == <<"Sandbox">>

\* Bit is declared in <shannon_logic.h>; Bit(1) is the Bit built from 1.
Bit(value) == <<"Bit", value>>

Call(op, arg, ret) == [op |-> op, arg |-> arg, ret |-> ret]

(***************************************************************************)
(* class Observer                                                          *)
(***************************************************************************)
\* decode(auto signal): the body is empty; the state of the world after the
\* call is the state before it.  The operator gives the void result.
decode(signal) == NoValue

(***************************************************************************)
(* class Sandbox.  A method that returns void is modelled by the instance  *)
(* it leaves behind, a method that returns a value by that value (no       *)
(* method with a result assigns to the instance).                          *)
(***************************************************************************)
\* Variant: the instance keeps the geometry it was created with.
initialize_sized(vg) == <<"Sandbox", vg>>

initialize(vg) == Sandbox

clearToZero(self) == self

\* Variant: the bit written is the cleared one.
writeBit_zero(self, quantum) == Bit(0)

writeBit(self, quantum) == Bit(1)

\* Variant: the sandbox reports that it has stopped.
isRunning_stopped(self) == FALSE

isRunning(self) == TRUE

\* Variants: the density is at the limit; the density counts the members.
getDensity_saturated(self) == PLANCK_LIMIT

getDensity_dynamic(self) == Len(self)

getDensity(self) == 0

executeBounce(self) == self

expandEntropy(self) == self

\* Variant: another label.
getRadiation_noise(self) == "Hawking-Noise"

getRadiation(self) == "Hawking-Signal"

Signals == {getRadiation(Sandbox), "Silence"}

(***************************************************************************)
(* Recording of calls.                                                     *)
(***************************************************************************)
Record(r, c, max) ==
    /\ last' = [last EXCEPT ![r] = c]
    /\ calls' = [calls EXCEPT ![r] = IF Len(@) < max THEN Append(@, c) ELSE @]

(***************************************************************************)
(* boot_universe, one action per call it makes.                            *)
(***************************************************************************)
Init ==
    /\ forward_progress \in BOOLEAN
    /\ pc = [r \in Runs |-> "initialize"]
    /\ volume_geometry = [r \in Runs |-> NoValue]
    /\ universe = [r \in Runs |-> Unset]
    /\ first_action = [r \in Runs |-> Unset]
    /\ last = [r \in Runs |-> Call("boot_universe", NoValue, NoValue)]
    /\ calls = [r \in Runs |-> << >>]

\* Sandbox universe = Sandbox::initialize(CONST_8PI_G_C4);
\* CONST_8PI_G_C4 comes from <planck_units.h>: any double.
Initialize(r) ==
    /\ pc[r] = "initialize"
    /\ \E x \in Doubles :
          /\ volume_geometry' = [volume_geometry EXCEPT ![r] = <<x>>]
          /\ universe' = [universe EXCEPT ![r] = initialize(x)]
          /\ Record(r, Call("initialize", <<x>>, <<initialize(x)>>), MaxCalls)
    /\ pc' = [pc EXCEPT ![r] = "clearToZero"]
    /\ UNCHANGED <<forward_progress, first_action>>

\* universe.clearToZero();
ClearToZero(r) ==
    /\ pc[r] = "clearToZero"
    /\ universe' = [universe EXCEPT ![r] = clearToZero(@)]
    /\ Record(r, Call("clearToZero", NoValue, NoValue), MaxCalls)
    /\ pc' = [pc EXCEPT ![r] = "writeBit"]
    /\ UNCHANGED <<forward_progress, volume_geometry, first_action>>

\* auto first_action = universe.writeBit(SIGMA_P);
WriteBit(r) ==
    /\ pc[r] = "writeBit"
    /\ first_action' = [first_action EXCEPT ![r] = writeBit(universe[r], SIGMA_P)]
    /\ Record(r, Call("writeBit", <<SIGMA_P>>, <<writeBit(universe[r], SIGMA_P)>>), MaxCalls)
    /\ pc' = [pc EXCEPT ![r] = "isRunning"]
    /\ UNCHANGED <<forward_progress, volume_geometry, universe>>

\* while (universe.isRunning())
IsRunning(r) ==
    /\ pc[r] = "isRunning"
    /\ ~forward_progress
    /\ Record(r, Call("isRunning", NoValue, <<isRunning(universe[r])>>), MaxCalls)
    /\ pc' = [pc EXCEPT ![r] = IF isRunning(universe[r]) THEN "getDensity" ELSE "end"]
    /\ UNCHANGED <<forward_progress, volume_geometry, universe, first_action>>

\* The loop makes no I/O call, no volatile access, no synchronisation and no
\* atomic operation, and its guard is not a constant expression: a build
\* that assumes forward progress drops the loop and the function ends.
AssumeProgress(r) ==
    /\ pc[r] = "isRunning"
    /\ forward_progress
    /\ pc' = [pc EXCEPT ![r] = "end"]
    /\ UNCHANGED <<forward_progress, volume_geometry, universe, first_action, last, calls>>

\* if (universe.getDensity() >= PLANCK_LIMIT)
GetDensity(r) ==
    /\ pc[r] = "getDensity"
    /\ Record(r, Call("getDensity", NoValue, <<getDensity(universe[r])>>), MaxCalls)
    /\ pc' = [pc EXCEPT ![r] = IF getDensity(universe[r]) >= PLANCK_LIMIT
                                 THEN "executeBounce" ELSE "expandEntropy"]
    /\ UNCHANGED <<forward_progress, volume_geometry, universe, first_action>>

\* universe.executeBounce();  or  universe.expandEntropy();
Branch(r) ==
    /\ pc[r] \in {"executeBounce", "expandEntropy"}
    /\ universe' = [universe EXCEPT ![r] = IF pc[r] = "executeBounce"
                                             THEN executeBounce(@) ELSE expandEntropy(@)]
    /\ Record(r, Call(pc[r], NoValue, NoValue), MaxCalls)
    /\ pc' = [pc EXCEPT ![r] = "getRadiation"]
    /\ UNCHANGED <<forward_progress, volume_geometry, first_action>>

\* universe.getRadiation(), the argument of the call of decode
GetRadiation(r) ==
    /\ pc[r] = "getRadiation"
    /\ Record(r, Call("getRadiation", NoValue, <<getRadiation(universe[r])>>), MaxCalls)
    /\ pc' = [pc EXCEPT ![r] = "decode"]
    /\ UNCHANGED <<forward_progress, volume_geometry, universe, first_action>>

\* Variant: the loop goes back to the first write.
Decode_restart(r) ==
    /\ pc[r] = "decode"
    /\ Record(r, Call("decode", last[r].ret, decode(last[r].ret[1])), MaxCalls)
    /\ pc' = [pc EXCEPT ![r] = "writeBit"]
    /\ UNCHANGED <<forward_progress, volume_geometry, universe, first_action>>

\* Observer::decode(<the result of getRadiation>);
Decode(r) ==
    /\ pc[r] = "decode"
    /\ Record(r, Call("decode", last[r].ret, decode(last[r].ret[1])), MaxCalls)
    /\ pc' = [pc EXCEPT ![r] = "isRunning"]
    /\ UNCHANGED <<forward_progress, volume_geometry, universe, first_action>>

Step(r) ==
    \/ Initialize(r)
    \/ ClearToZero(r)
    \/ WriteBit(r)
    \/ IsRunning(r)
    \/ AssumeProgress(r)
    \/ GetDensity(r)
    \/ Branch(r)
    \/ GetRadiation(r)
    \/ Decode(r)

Next == \E r \in Runs : Step(r)

Spec == Init /\ [][Next]_vars

\* The thread of a run keeps executing its next statement.
FairSpec == Spec /\ \A r \in Runs : WF_vars(Step(r))

(***************************************************************************)
(* A client of the public interface: it calls any operation of the         *)
(* classes, in any order, with any argument.  A member function needs an   *)
(* instance; initialize and decode are static.                             *)
(***************************************************************************)
Client == "a"

ApiInit ==
    /\ forward_progress \in BOOLEAN
    /\ pc = [r \in Runs |-> IF r = Client THEN "test" ELSE "idle"]
    /\ volume_geometry = [r \in Runs |-> NoValue]
    /\ universe = [r \in Runs |-> Unset]
    /\ first_action = [r \in Runs |-> Unset]
    /\ last = [r \in Runs |-> Call("test", NoValue, NoValue)]
    /\ calls = [r \in Runs |-> << >>]

Api_initialize(r, x) ==
    /\ pc[r] = "test"
    /\ volume_geometry' = [volume_geometry EXCEPT ![r] = <<x>>]
    /\ universe' = [universe EXCEPT ![r] = initialize(x)]
    /\ Record(r, Call("initialize", <<x>>, <<initialize(x)>>), MaxTestCalls)
    /\ UNCHANGED <<forward_progress, pc, first_action>>

Api_clearToZero(r) ==
    /\ pc[r] = "test"
    /\ universe[r] # Unset
    /\ universe' = [universe EXCEPT ![r] = clearToZero(@)]
    /\ Record(r, Call("clearToZero", NoValue, NoValue), MaxTestCalls)
    /\ UNCHANGED <<forward_progress, pc, volume_geometry, first_action>>

\* Variant: the quantum is validated.
Api_writeBit_validating(r, q) ==
    /\ pc[r] = "test"
    /\ universe[r] # Unset
    /\ q >= 0
    /\ Record(r, Call("writeBit", <<q>>, <<writeBit(universe[r], q)>>), MaxTestCalls)
    /\ UNCHANGED <<forward_progress, pc, volume_geometry, universe, first_action>>

Api_writeBit(r, q) ==
    /\ pc[r] = "test"
    /\ universe[r] # Unset
    /\ Record(r, Call("writeBit", <<q>>, <<writeBit(universe[r], q)>>), MaxTestCalls)
    /\ UNCHANGED <<forward_progress, pc, volume_geometry, universe, first_action>>

Api_isRunning(r) ==
    /\ pc[r] = "test"
    /\ universe[r] # Unset
    /\ Record(r, Call("isRunning", NoValue, <<isRunning(universe[r])>>), MaxTestCalls)
    /\ UNCHANGED <<forward_progress, pc, volume_geometry, universe, first_action>>

Api_getDensity(r) ==
    /\ pc[r] = "test"
    /\ universe[r] # Unset
    /\ Record(r, Call("getDensity", NoValue, <<getDensity(universe[r])>>), MaxTestCalls)
    /\ UNCHANGED <<forward_progress, pc, volume_geometry, universe, first_action>>

Api_executeBounce(r) ==
    /\ pc[r] = "test"
    /\ universe[r] # Unset
    /\ universe' = [universe EXCEPT ![r] = executeBounce(@)]
    /\ Record(r, Call("executeBounce", NoValue, NoValue), MaxTestCalls)
    /\ UNCHANGED <<forward_progress, pc, volume_geometry, first_action>>

Api_expandEntropy(r) ==
    /\ pc[r] = "test"
    /\ universe[r] # Unset
    /\ universe' = [universe EXCEPT ![r] = expandEntropy(@)]
    /\ Record(r, Call("expandEntropy", NoValue, NoValue), MaxTestCalls)
    /\ UNCHANGED <<forward_progress, pc, volume_geometry, first_action>>

Api_getRadiation(r) ==
    /\ pc[r] = "test"
    /\ universe[r] # Unset
    /\ Record(r, Call("getRadiation", NoValue, <<getRadiation(universe[r])>>), MaxTestCalls)
    /\ UNCHANGED <<forward_progress, pc, volume_geometry, universe, first_action>>

Api_decode(r, s) ==
    /\ pc[r] = "test"
    /\ Record(r, Call("decode", <<s>>, decode(s)), MaxTestCalls)
    /\ UNCHANGED <<forward_progress, pc, volume_geometry, universe, first_action>>

ApiNext ==
    \E r \in Runs :
        \/ \E x \in Doubles : Api_initialize(r, x)
        \/ Api_clearToZero(r)
        \/ \E q \in Doubles : Api_writeBit(r, q)
        \/ Api_isRunning(r)
        \/ Api_getDensity(r)
        \/ Api_executeBounce(r)
        \/ Api_expandEntropy(r)
        \/ Api_getRadiation(r)
        \/ \E s \in Signals : Api_decode(r, s)

ApiSpec == ApiInit /\ [][ApiNext]_vars

(***************************************************************************)
(* Helpers of the properties.                                              *)
(***************************************************************************)
StartupOps == <<"initialize", "clearToZero", "writeBit">>

LoopOps == <<"isRunning", "getDensity", "expandEntropy", "getRadiation", "decode">>

LoopPcs == {"isRunning", "getDensity", "executeBounce", "expandEntropy",
            "getRadiation", "decode"}

InSeq(ops) == {ops[i] : i \in DOMAIN ops}

\* The calls of run r, recorded or last, that are calls of op.
CallsOf(r, op) == {c \in InSeq(calls[r]) \cup {last[r]} : c.op = op}

(***************************************************************************)
(* C1: in every iteration of the loop of boot_universe the test            *)
(* getDensity() >= PLANCK_LIMIT is false: the run goes on to expandEntropy *)
(* and executeBounce is not called in any reachable state.                 *)
(***************************************************************************)
C1_OnlyExpand ==
    \A r \in Runs :
        /\ pc[r] # "executeBounce"
        /\ CallsOf(r, "executeBounce") = {}
        /\ \A c \in CallsOf(r, "getDensity") : ~(c.ret[1] >= PLANCK_LIMIT)
        /\ last[r].op = "getDensity" => pc[r] = "expandEntropy"

C1_Witness ==
    \E r \in Runs : last[r].op = "expandEntropy" /\ pc[r] = "getRadiation"

C3_StartupInv ==
    \A r \in Runs :
        /\ \A i \in DOMAIN calls[r] :
              IF i <= Len(StartupOps) THEN calls[r][i].op = StartupOps[i]
              ELSE calls[r][i].op \notin InSeq(StartupOps)
        /\ pc[r] \in LoopPcs \cup {"end"} => Len(calls[r]) >= Len(StartupOps)
        /\ pc[r] \in LoopPcs /\ Len(calls[r]) > Len(StartupOps)
              => last[r].op \notin InSeq(StartupOps)

C3_StartupStep ==
    \A r \in Runs :
        pc[r] \in LoopPcs =>
            /\ pc'[r] \in LoopPcs \cup {"end"}
            /\ last'[r] # last[r] => last'[r].op \notin InSeq(StartupOps)

C3_StartupOnce == []C3_StartupInv /\ [][C3_StartupStep]_vars

C3_Witness ==
    \E r \in Runs :
        /\ last[r].op = "isRunning"
        /\ \E i \in DOMAIN calls[r] : calls[r][i].op = "decode"

(***************************************************************************)
(* C4: getDensity() returns 0.0 in every reachable state of a Sandbox,     *)
(* after initialize and after any sequence of the other operations.        *)
(***************************************************************************)
C4_DensityZero ==
    \A r \in Runs :
        /\ universe[r] # Unset => getDensity(universe[r]) = 0
        /\ \A c \in CallsOf(r, "getDensity") : c.ret = <<0>>

C4_Witness ==
    \E r \in Runs :
        /\ Len(calls[r]) = 2
        /\ calls[r][2].op = "writeBit"
        /\ last[r].op = "getDensity"

(***************************************************************************)
(* C5: getRadiation() returns "Hawking-Signal" on every call, and in every *)
(* iteration decode receives exactly this value and returns normally.      *)
(***************************************************************************)
C5_SignalPassed ==
    \A r \in Runs :
        /\ \A c \in CallsOf(r, "getRadiation") : c.ret = <<"Hawking-Signal">>
        /\ \A c \in CallsOf(r, "decode") :
              c.arg = <<"Hawking-Signal">> /\ c.ret = NoValue
        /\ last[r].op = "decode" => pc[r] = "isRunning"

C5_Witness ==
    \E r \in Runs : last[r].op = "decode" /\ Len(calls[r]) = MaxCalls

(***************************************************************************)
(* C6: isRunning() returns true after initialize and clearToZero, and      *)
(* after any sequence of operations of Sandbox.                            *)
(***************************************************************************)
C6_AlwaysRunning ==
    \A r \in Runs :
        /\ universe[r] # Unset => isRunning(universe[r])
        /\ \A c \in CallsOf(r, "isRunning") : c.ret = <<TRUE>>

C6_Witness ==
    \E r \in Runs :
        /\ Len(calls[r]) = 2
        /\ calls[r][1].op = "initialize"
        /\ calls[r][2].op = "clearToZero"
        /\ last[r].op = "isRunning"

(***************************************************************************)
(* C7: every operation of Sandbox and Observer is total: it can be called  *)
(* in every state and with every argument, and it returns a result of its  *)
(* type; no state is reachable in which a call has failed.                 *)
(***************************************************************************)
Returned(c) ==
    CASE c.op = "initialize" -> c.ret = <<Sandbox>>
      [] c.op = "writeBit" -> c.ret \in {<<Bit(b)>> : b \in {0, 1}}
      [] c.op = "isRunning" -> c.ret \in {<<b>> : b \in BOOLEAN}
      [] c.op = "getDensity" -> Len(c.ret) = 1 /\ c.ret[1] \in Int
      [] c.op = "getRadiation" -> Len(c.ret) = 1 /\ c.ret[1] \in STRING
      [] OTHER -> c.ret = NoValue

C7_Total ==
    \A r \in Runs :
        /\ pc[r] = "test" =>
              /\ \A x \in Doubles : ENABLED Api_initialize(r, x)
              /\ \A s \in Signals : ENABLED Api_decode(r, s)
        /\ pc[r] = "test" /\ universe[r] # Unset =>
              /\ ENABLED Api_clearToZero(r)
              /\ \A q \in Doubles : ENABLED Api_writeBit(r, q)
              /\ ENABLED Api_isRunning(r)
              /\ ENABLED Api_getDensity(r)
              /\ ENABLED Api_executeBounce(r)
              /\ ENABLED Api_expandEntropy(r)
              /\ ENABLED Api_getRadiation(r)
        /\ universe[r] \in {Unset, Sandbox}
        /\ \A c \in InSeq(calls[r]) \cup {last[r]} : Returned(c)

C7_Witness ==
    \E r \in Runs :
        /\ last[r].op = "writeBit"
        /\ last[r].arg[1] < 0
        /\ Len(calls[r]) = MaxTestCalls
        /\ calls[r][1].op = "initialize"
        /\ calls[r][1].arg[1] = 0

(***************************************************************************)
(* C8: initialize(x) succeeds for every x and the instance does not depend *)
(* on x: two runs with different volume_geometry have the same instance    *)
(* and the same sequence of calls with the same results.                   *)
(***************************************************************************)
SameObservation(c, d) == c.op = d.op /\ c.ret = d.ret

C8_GeometryIgnored ==
    /\ \A r \in Runs : pc[r] # "initialize" => universe[r] = Sandbox
    /\ \A r1, r2 \in Runs :
          /\ \A i \in DOMAIN calls[r1] \cap DOMAIN calls[r2] :
                SameObservation(calls[r1][i], calls[r2][i])
          /\ pc[r1] = pc[r2] /\ Len(calls[r1]) = Len(calls[r2])
                => SameObservation(last[r1], last[r2])

C8_Witness ==
    /\ \A r \in Runs : Len(calls[r]) = MaxCalls
    /\ volume_geometry["a"][1] < 0
    /\ volume_geometry["b"][1] > 1

(***************************************************************************)
(* C9: writeBit(q) returns the Bit 1 for every q, and the Bit it returns   *)
(* has no influence on boot_universe: the calls after writeBit are the     *)
(* calls of the loop, in their order.                                      *)
(***************************************************************************)
C9_BitUnused ==
    \A r \in Runs :
        /\ pc[r] \in LoopPcs \cup {"end"} => first_action[r] = Bit(1)
        /\ \A c \in CallsOf(r, "writeBit") : c.ret = <<Bit(1)>>
        /\ universe[r] # Unset =>
              \A q \in Doubles : writeBit(universe[r], q) = Bit(1)
        /\ \A i \in DOMAIN calls[r] :
              i > Len(StartupOps) =>
                 calls[r][i].op = LoopOps[((i - Len(StartupOps) - 1) % Len(LoopOps)) + 1]

C9_Witness ==
    \E r \in Runs :
        /\ first_action[r] = Bit(1)
        /\ Len(calls[r]) = MaxCalls
        /\ last[r].op = "getDensity"

(***************************************************************************)
(* C10: every iteration of the loop calls isRunning, getDensity, one of    *)
(* expandEntropy and executeBounce, getRadiation and decode, in this       *)
(* order and once each; decode is therefore called infinitely often.       *)
(***************************************************************************)
C10_IterationInv ==
    \A r \in Runs :
        \A i \in DOMAIN calls[r] :
            i > Len(StartupOps) =>
                LET k == ((i - Len(StartupOps) - 1) % Len(LoopOps)) + 1
                IN  IF k = 3 THEN calls[r][i].op \in {"expandEntropy", "executeBounce"}
                    ELSE calls[r][i].op = LoopOps[k]

====
